---- MODULE Spec2Model ----
(***************************************************************************)
(* django-autoapi: the autoapi_scan management command.                    *)
(*                                                                         *)
(* Command.handle selects the installed apps (contrib / INCLUDE_APPS /     *)
(* --app / EXCLUDE_APPS), scans their models, prints the report, then      *)
(* either prints a budget estimate or, after an optional confirmation,     *)
(* calls Command._generate_for_app for every entry of app_models_map.      *)
(* Strings whose characters matter (app names, the operator's answer, the  *)
(* generated code, file contents) are sequences of Unicode code points.    *)
(* An optional value is <<>> for None and <<v>> for a value v.             *)
(***************************************************************************)
EXTENDS Integers, Sequences, FiniteSets, TLC

VARIABLES
    pc,              \* position in handle: idle, scanned, confirm, generate, unit, done
    installed,       \* django_apps.get_app_configs(): the installed apps, in order
    run,             \* number of runs of the command started so far
    env_key,         \* whether OPENAI_API_KEY / API_KEY yields a non-empty key
    cfg,             \* get_config(): INCLUDE_APPS, EXCLUDE_APPS
    options,         \* app_label, include_empty, yes, model_name, budget_only
    app_configs,     \* the selected app configs (after the four filters)
    app_models_map,  \* ordered dict app_config -> models, as a sequence of entries
    total_apps,
    total_models,
    report,          \* labels printed as "App: <label>" by the scan
    confirm,         \* <<>> until input() is read, then <<raw answer>>
    files,           \* label -> [exists, content] of <app path>/api_serializers_ai.py
    app_idx,         \* position of the generation loop in app_models_map
    unit_idx,        \* position of the model loop inside _generate_for_app
    log,             \* per-unit outcomes of this run, in order
    result           \* how the run ended

vars == <<pc, installed, run, env_key, cfg, options, app_configs, app_models_map, total_apps,
          total_models, report, confirm, files, app_idx, unit_idx, log, result>>

\* Number of runs of the command in one behaviour.
MaxRuns == 2

None == <<>>
Some(v) == <<v>>

\* Python truthiness of an optional string / optional list: None, "" and [] are falsy.
TruthyStr(o) == o # None /\ o[1] # ""
TruthyList(o) == o # None /\ o[1] # <<>>

-----------------------------------------------------------------------------
\* Strings as character sequences

StartsWith(s, p) == Len(s) >= Len(p) /\ SubSeq(s, 1, Len(p)) = p
EndsWith(s, p) == Len(s) >= Len(p) /\ SubSeq(s, Len(s) - Len(p) + 1, Len(s)) = p
IsPrefix(p, s) == StartsWith(s, p)

\* Characters are Unicode code points (32 is the space, 10 is \n, 121 is y) and a
\* string is the sequence of its code points.

\* The characters str.strip() removes: those for which str.isspace() holds
Whitespace ==
    (9..13) \cup (28..32) \cup {133} \cup {160} \cup {5760} \cup (8192..8202) \cup (8232..8233) \cup {8239} \cup {8287} \cup {12288}

InRanges(c, ranges) == \E r \in ranges : r[1] <= c /\ c <= r[2]

RECURSIVE LStrip(_)
LStrip(s) == IF s # <<>> /\ Head(s) \in Whitespace THEN LStrip(Tail(s)) ELSE s

RECURSIVE RStrip(_)
RStrip(s) ==
    IF s # <<>> /\ s[Len(s)] \in Whitespace THEN RStrip(SubSeq(s, 1, Len(s) - 1)) ELSE s

\* str.strip()
Strip(s) == RStrip(LStrip(s))

\* The lower-case mapping of str.lower(), as <<first, last, step, offset>>: every
\* character first, first + step, ..., last is mapped to itself plus offset. (65..90, the
\* letters A to Z, are mapped to 97..122.) Every other character but 304 is unchanged.
LowerRanges ==
    {
      <<65, 90, 1, 32>>, <<192, 214, 1, 32>>, <<216, 222, 1, 32>>, <<256, 302, 2, 1>>,
      <<306, 310, 2, 1>>, <<313, 327, 2, 1>>, <<330, 374, 2, 1>>, <<376, 376, 1, -121>>,
      <<377, 381, 2, 1>>, <<385, 385, 1, 210>>, <<386, 388, 2, 1>>, <<390, 390, 1, 206>>,
      <<391, 391, 1, 1>>, <<393, 394, 1, 205>>, <<395, 395, 1, 1>>, <<398, 398, 1, 79>>,
      <<399, 399, 1, 202>>, <<400, 400, 1, 203>>, <<401, 401, 1, 1>>, <<403, 403, 1, 205>>,
      <<404, 404, 1, 207>>, <<406, 406, 1, 211>>, <<407, 407, 1, 209>>, <<408, 408, 1, 1>>,
      <<412, 412, 1, 211>>, <<413, 413, 1, 213>>, <<415, 415, 1, 214>>, <<416, 420, 2, 1>>,
      <<422, 422, 1, 218>>, <<423, 423, 1, 1>>, <<425, 425, 1, 218>>, <<428, 428, 1, 1>>,
      <<430, 430, 1, 218>>, <<431, 431, 1, 1>>, <<433, 434, 1, 217>>, <<435, 437, 2, 1>>,
      <<439, 439, 1, 219>>, <<440, 440, 1, 1>>, <<444, 444, 1, 1>>, <<452, 452, 1, 2>>,
      <<453, 453, 1, 1>>, <<455, 455, 1, 2>>, <<456, 456, 1, 1>>, <<458, 458, 1, 2>>,
      <<459, 475, 2, 1>>, <<478, 494, 2, 1>>, <<497, 497, 1, 2>>, <<498, 500, 2, 1>>,
      <<502, 502, 1, -97>>, <<503, 503, 1, -56>>, <<504, 542, 2, 1>>, <<544, 544, 1, -130>>,
      <<546, 562, 2, 1>>, <<570, 570, 1, 10795>>, <<571, 571, 1, 1>>, <<573, 573, 1, -163>>,
      <<574, 574, 1, 10792>>, <<577, 577, 1, 1>>, <<579, 579, 1, -195>>, <<580, 580, 1, 69>>,
      <<581, 581, 1, 71>>, <<582, 590, 2, 1>>, <<880, 882, 2, 1>>, <<886, 886, 1, 1>>,
      <<895, 895, 1, 116>>, <<902, 902, 1, 38>>, <<904, 906, 1, 37>>, <<908, 908, 1, 64>>,
      <<910, 911, 1, 63>>, <<913, 929, 1, 32>>, <<931, 939, 1, 32>>, <<975, 975, 1, 8>>,
      <<984, 1006, 2, 1>>, <<1012, 1012, 1, -60>>, <<1015, 1015, 1, 1>>,
      <<1017, 1017, 1, -7>>, <<1018, 1018, 1, 1>>, <<1021, 1023, 1, -130>>,
      <<1024, 1039, 1, 80>>, <<1040, 1071, 1, 32>>, <<1120, 1152, 2, 1>>,
      <<1162, 1214, 2, 1>>, <<1216, 1216, 1, 15>>, <<1217, 1229, 2, 1>>,
      <<1232, 1326, 2, 1>>, <<1329, 1366, 1, 48>>, <<4256, 4293, 1, 7264>>,
      <<4295, 4295, 1, 7264>>, <<4301, 4301, 1, 7264>>, <<5024, 5103, 1, 38864>>,
      <<5104, 5109, 1, 8>>, <<7312, 7354, 1, -3008>>, <<7357, 7359, 1, -3008>>,
      <<7680, 7828, 2, 1>>, <<7838, 7838, 1, -7615>>, <<7840, 7934, 2, 1>>,
      <<7944, 7951, 1, -8>>, <<7960, 7965, 1, -8>>, <<7976, 7983, 1, -8>>,
      <<7992, 7999, 1, -8>>, <<8008, 8013, 1, -8>>, <<8025, 8031, 2, -8>>,
      <<8040, 8047, 1, -8>>, <<8072, 8079, 1, -8>>, <<8088, 8095, 1, -8>>,
      <<8104, 8111, 1, -8>>, <<8120, 8121, 1, -8>>, <<8122, 8123, 1, -74>>,
      <<8124, 8124, 1, -9>>, <<8136, 8139, 1, -86>>, <<8140, 8140, 1, -9>>,
      <<8152, 8153, 1, -8>>, <<8154, 8155, 1, -100>>, <<8168, 8169, 1, -8>>,
      <<8170, 8171, 1, -112>>, <<8172, 8172, 1, -7>>, <<8184, 8185, 1, -128>>,
      <<8186, 8187, 1, -126>>, <<8188, 8188, 1, -9>>, <<8486, 8486, 1, -7517>>,
      <<8490, 8490, 1, -8383>>, <<8491, 8491, 1, -8262>>, <<8498, 8498, 1, 28>>,
      <<8544, 8559, 1, 16>>, <<8579, 8579, 1, 1>>, <<9398, 9423, 1, 26>>,
      <<11264, 11311, 1, 48>>, <<11360, 11360, 1, 1>>, <<11362, 11362, 1, -10743>>,
      <<11363, 11363, 1, -3814>>, <<11364, 11364, 1, -10727>>, <<11367, 11371, 2, 1>>,
      <<11373, 11373, 1, -10780>>, <<11374, 11374, 1, -10749>>, <<11375, 11375, 1, -10783>>,
      <<11376, 11376, 1, -10782>>, <<11378, 11378, 1, 1>>, <<11381, 11381, 1, 1>>,
      <<11390, 11391, 1, -10815>>, <<11392, 11490, 2, 1>>, <<11499, 11501, 2, 1>>,
      <<11506, 11506, 1, 1>>, <<42560, 42604, 2, 1>>, <<42624, 42650, 2, 1>>,
      <<42786, 42798, 2, 1>>, <<42802, 42862, 2, 1>>, <<42873, 42875, 2, 1>>,
      <<42877, 42877, 1, -35332>>, <<42878, 42886, 2, 1>>, <<42891, 42891, 1, 1>>,
      <<42893, 42893, 1, -42280>>, <<42896, 42898, 2, 1>>, <<42902, 42920, 2, 1>>,
      <<42922, 42922, 1, -42308>>, <<42923, 42923, 1, -42319>>, <<42924, 42924, 1, -42315>>,
      <<42925, 42925, 1, -42305>>, <<42926, 42926, 1, -42308>>, <<42928, 42928, 1, -42258>>,
      <<42929, 42929, 1, -42282>>, <<42930, 42930, 1, -42261>>, <<42931, 42931, 1, 928>>,
      <<42932, 42946, 2, 1>>, <<42948, 42948, 1, -48>>, <<42949, 42949, 1, -42307>>,
      <<42950, 42950, 1, -35384>>, <<42951, 42953, 2, 1>>, <<42960, 42960, 1, 1>>,
      <<42966, 42968, 2, 1>>, <<42997, 42997, 1, 1>>, <<65313, 65338, 1, 32>>,
      <<66560, 66599, 1, 40>>, <<66736, 66771, 1, 40>>, <<66928, 66964, 2, 39>>,
      <<66929, 66937, 2, 39>>, <<66941, 66953, 2, 39>>, <<66957, 66961, 2, 39>>,
      <<66965, 66965, 1, 39>>, <<68736, 68786, 1, 64>>, <<71840, 71871, 1, 32>>,
      <<93760, 93791, 1, 32>>, <<125184, 125217, 1, 34>>
    }

\* The characters with the Unicode property Cased, as <<first, last>>
CasedRanges ==
    {
      <<65, 90>>, <<97, 122>>, <<170, 170>>, <<181, 181>>, <<186, 186>>, <<192, 214>>,
      <<216, 246>>, <<248, 442>>, <<444, 447>>, <<452, 659>>, <<661, 696>>, <<704, 705>>,
      <<736, 740>>, <<837, 837>>, <<880, 883>>, <<886, 887>>, <<890, 893>>, <<895, 895>>,
      <<902, 902>>, <<904, 906>>, <<908, 908>>, <<910, 929>>, <<931, 1013>>, <<1015, 1153>>,
      <<1162, 1327>>, <<1329, 1366>>, <<1376, 1416>>, <<4256, 4293>>, <<4295, 4295>>,
      <<4301, 4301>>, <<4304, 4346>>, <<4349, 4351>>, <<5024, 5109>>, <<5112, 5117>>,
      <<7296, 7304>>, <<7312, 7354>>, <<7357, 7359>>, <<7424, 7615>>, <<7680, 7957>>,
      <<7960, 7965>>, <<7968, 8005>>, <<8008, 8013>>, <<8016, 8023>>, <<8025, 8025>>,
      <<8027, 8027>>, <<8029, 8029>>, <<8031, 8061>>, <<8064, 8116>>, <<8118, 8124>>,
      <<8126, 8126>>, <<8130, 8132>>, <<8134, 8140>>, <<8144, 8147>>, <<8150, 8155>>,
      <<8160, 8172>>, <<8178, 8180>>, <<8182, 8188>>, <<8305, 8305>>, <<8319, 8319>>,
      <<8336, 8348>>, <<8450, 8450>>, <<8455, 8455>>, <<8458, 8467>>, <<8469, 8469>>,
      <<8473, 8477>>, <<8484, 8484>>, <<8486, 8486>>, <<8488, 8488>>, <<8490, 8493>>,
      <<8495, 8500>>, <<8505, 8505>>, <<8508, 8511>>, <<8517, 8521>>, <<8526, 8526>>,
      <<8544, 8575>>, <<8579, 8580>>, <<9398, 9449>>, <<11264, 11492>>, <<11499, 11502>>,
      <<11506, 11507>>, <<11520, 11557>>, <<11559, 11559>>, <<11565, 11565>>,
      <<42560, 42605>>, <<42624, 42653>>, <<42786, 42887>>, <<42891, 42894>>,
      <<42896, 42954>>, <<42960, 42961>>, <<42963, 42963>>, <<42965, 42969>>,
      <<42997, 42998>>, <<43000, 43002>>, <<43824, 43866>>, <<43868, 43880>>,
      <<43888, 43967>>, <<64256, 64262>>, <<64275, 64279>>, <<65313, 65338>>,
      <<65345, 65370>>, <<66560, 66639>>, <<66736, 66771>>, <<66776, 66811>>,
      <<66928, 66938>>, <<66940, 66954>>, <<66956, 66962>>, <<66964, 66965>>,
      <<66967, 66977>>, <<66979, 66993>>, <<66995, 67001>>, <<67003, 67004>>,
      <<67456, 67456>>, <<67459, 67461>>, <<67463, 67504>>, <<67506, 67514>>,
      <<68736, 68786>>, <<68800, 68850>>, <<71840, 71903>>, <<93760, 93823>>,
      <<119808, 119892>>, <<119894, 119964>>, <<119966, 119967>>, <<119970, 119970>>,
      <<119973, 119974>>, <<119977, 119980>>, <<119982, 119993>>, <<119995, 119995>>,
      <<119997, 120003>>, <<120005, 120069>>, <<120071, 120074>>, <<120077, 120084>>,
      <<120086, 120092>>, <<120094, 120121>>, <<120123, 120126>>, <<120128, 120132>>,
      <<120134, 120134>>, <<120138, 120144>>, <<120146, 120485>>, <<120488, 120512>>,
      <<120514, 120538>>, <<120540, 120570>>, <<120572, 120596>>, <<120598, 120628>>,
      <<120630, 120654>>, <<120656, 120686>>, <<120688, 120712>>, <<120714, 120744>>,
      <<120746, 120770>>, <<120772, 120779>>, <<122624, 122633>>, <<122635, 122654>>,
      <<125184, 125251>>, <<127280, 127305>>, <<127312, 127337>>, <<127344, 127369>>
    }

\* The characters with the Unicode property Case_Ignorable, as <<first, last>>
CaseIgnorableRanges ==
    {
      <<39, 39>>, <<46, 46>>, <<58, 58>>, <<94, 94>>, <<96, 96>>, <<168, 168>>, <<173, 173>>,
      <<175, 175>>, <<180, 180>>, <<183, 184>>, <<688, 879>>, <<884, 885>>, <<890, 890>>,
      <<900, 901>>, <<903, 903>>, <<1155, 1161>>, <<1369, 1369>>, <<1375, 1375>>,
      <<1425, 1469>>, <<1471, 1471>>, <<1473, 1474>>, <<1476, 1477>>, <<1479, 1479>>,
      <<1524, 1524>>, <<1536, 1541>>, <<1552, 1562>>, <<1564, 1564>>, <<1600, 1600>>,
      <<1611, 1631>>, <<1648, 1648>>, <<1750, 1757>>, <<1759, 1768>>, <<1770, 1773>>,
      <<1807, 1807>>, <<1809, 1809>>, <<1840, 1866>>, <<1958, 1968>>, <<2027, 2037>>,
      <<2042, 2042>>, <<2045, 2045>>, <<2070, 2093>>, <<2137, 2139>>, <<2184, 2184>>,
      <<2192, 2193>>, <<2200, 2207>>, <<2249, 2306>>, <<2362, 2362>>, <<2364, 2364>>,
      <<2369, 2376>>, <<2381, 2381>>, <<2385, 2391>>, <<2402, 2403>>, <<2417, 2417>>,
      <<2433, 2433>>, <<2492, 2492>>, <<2497, 2500>>, <<2509, 2509>>, <<2530, 2531>>,
      <<2558, 2558>>, <<2561, 2562>>, <<2620, 2620>>, <<2625, 2626>>, <<2631, 2632>>,
      <<2635, 2637>>, <<2641, 2641>>, <<2672, 2673>>, <<2677, 2677>>, <<2689, 2690>>,
      <<2748, 2748>>, <<2753, 2757>>, <<2759, 2760>>, <<2765, 2765>>, <<2786, 2787>>,
      <<2810, 2815>>, <<2817, 2817>>, <<2876, 2876>>, <<2879, 2879>>, <<2881, 2884>>,
      <<2893, 2893>>, <<2901, 2902>>, <<2914, 2915>>, <<2946, 2946>>, <<3008, 3008>>,
      <<3021, 3021>>, <<3072, 3072>>, <<3076, 3076>>, <<3132, 3132>>, <<3134, 3136>>,
      <<3142, 3144>>, <<3146, 3149>>, <<3157, 3158>>, <<3170, 3171>>, <<3201, 3201>>,
      <<3260, 3260>>, <<3263, 3263>>, <<3270, 3270>>, <<3276, 3277>>, <<3298, 3299>>,
      <<3328, 3329>>, <<3387, 3388>>, <<3393, 3396>>, <<3405, 3405>>, <<3426, 3427>>,
      <<3457, 3457>>, <<3530, 3530>>, <<3538, 3540>>, <<3542, 3542>>, <<3633, 3633>>,
      <<3636, 3642>>, <<3654, 3662>>, <<3761, 3761>>, <<3764, 3772>>, <<3782, 3782>>,
      <<3784, 3789>>, <<3864, 3865>>, <<3893, 3893>>, <<3895, 3895>>, <<3897, 3897>>,
      <<3953, 3966>>, <<3968, 3972>>, <<3974, 3975>>, <<3981, 3991>>, <<3993, 4028>>,
      <<4038, 4038>>, <<4141, 4144>>, <<4146, 4151>>, <<4153, 4154>>, <<4157, 4158>>,
      <<4184, 4185>>, <<4190, 4192>>, <<4209, 4212>>, <<4226, 4226>>, <<4229, 4230>>,
      <<4237, 4237>>, <<4253, 4253>>, <<4348, 4348>>, <<4957, 4959>>, <<5906, 5908>>,
      <<5938, 5939>>, <<5970, 5971>>, <<6002, 6003>>, <<6068, 6069>>, <<6071, 6077>>,
      <<6086, 6086>>, <<6089, 6099>>, <<6103, 6103>>, <<6109, 6109>>, <<6155, 6159>>,
      <<6211, 6211>>, <<6277, 6278>>, <<6313, 6313>>, <<6432, 6434>>, <<6439, 6440>>,
      <<6450, 6450>>, <<6457, 6459>>, <<6679, 6680>>, <<6683, 6683>>, <<6742, 6742>>,
      <<6744, 6750>>, <<6752, 6752>>, <<6754, 6754>>, <<6757, 6764>>, <<6771, 6780>>,
      <<6783, 6783>>, <<6823, 6823>>, <<6832, 6862>>, <<6912, 6915>>, <<6964, 6964>>,
      <<6966, 6970>>, <<6972, 6972>>, <<6978, 6978>>, <<7019, 7027>>, <<7040, 7041>>,
      <<7074, 7077>>, <<7080, 7081>>, <<7083, 7085>>, <<7142, 7142>>, <<7144, 7145>>,
      <<7149, 7149>>, <<7151, 7153>>, <<7212, 7219>>, <<7222, 7223>>, <<7288, 7293>>,
      <<7376, 7378>>, <<7380, 7392>>, <<7394, 7400>>, <<7405, 7405>>, <<7412, 7412>>,
      <<7416, 7417>>, <<7468, 7530>>, <<7544, 7544>>, <<7579, 7679>>, <<8125, 8125>>,
      <<8127, 8129>>, <<8141, 8143>>, <<8157, 8159>>, <<8173, 8175>>, <<8189, 8190>>,
      <<8203, 8207>>, <<8216, 8217>>, <<8228, 8228>>, <<8231, 8231>>, <<8234, 8238>>,
      <<8288, 8292>>, <<8294, 8303>>, <<8305, 8305>>, <<8319, 8319>>, <<8336, 8348>>,
      <<8400, 8432>>, <<11388, 11389>>, <<11503, 11505>>, <<11631, 11631>>, <<11647, 11647>>,
      <<11744, 11775>>, <<11823, 11823>>, <<12293, 12293>>, <<12330, 12333>>,
      <<12337, 12341>>, <<12347, 12347>>, <<12441, 12446>>, <<12540, 12542>>,
      <<40981, 40981>>, <<42232, 42237>>, <<42508, 42508>>, <<42607, 42610>>,
      <<42612, 42621>>, <<42623, 42623>>, <<42652, 42655>>, <<42736, 42737>>,
      <<42752, 42785>>, <<42864, 42864>>, <<42888, 42890>>, <<42994, 42996>>,
      <<43000, 43001>>, <<43010, 43010>>, <<43014, 43014>>, <<43019, 43019>>,
      <<43045, 43046>>, <<43052, 43052>>, <<43204, 43205>>, <<43232, 43249>>,
      <<43263, 43263>>, <<43302, 43309>>, <<43335, 43345>>, <<43392, 43394>>,
      <<43443, 43443>>, <<43446, 43449>>, <<43452, 43453>>, <<43471, 43471>>,
      <<43493, 43494>>, <<43561, 43566>>, <<43569, 43570>>, <<43573, 43574>>,
      <<43587, 43587>>, <<43596, 43596>>, <<43632, 43632>>, <<43644, 43644>>,
      <<43696, 43696>>, <<43698, 43700>>, <<43703, 43704>>, <<43710, 43711>>,
      <<43713, 43713>>, <<43741, 43741>>, <<43756, 43757>>, <<43763, 43764>>,
      <<43766, 43766>>, <<43867, 43871>>, <<43881, 43883>>, <<44005, 44005>>,
      <<44008, 44008>>, <<44013, 44013>>, <<64286, 64286>>, <<64434, 64450>>,
      <<65024, 65039>>, <<65043, 65043>>, <<65056, 65071>>, <<65106, 65106>>,
      <<65109, 65109>>, <<65279, 65279>>, <<65287, 65287>>, <<65294, 65294>>,
      <<65306, 65306>>, <<65342, 65342>>, <<65344, 65344>>, <<65392, 65392>>,
      <<65438, 65439>>, <<65507, 65507>>, <<65529, 65531>>, <<66045, 66045>>,
      <<66272, 66272>>, <<66422, 66426>>, <<67456, 67461>>, <<67463, 67504>>,
      <<67506, 67514>>, <<68097, 68099>>, <<68101, 68102>>, <<68108, 68111>>,
      <<68152, 68154>>, <<68159, 68159>>, <<68325, 68326>>, <<68900, 68903>>,
      <<69291, 69292>>, <<69446, 69456>>, <<69506, 69509>>, <<69633, 69633>>,
      <<69688, 69702>>, <<69744, 69744>>, <<69747, 69748>>, <<69759, 69761>>,
      <<69811, 69814>>, <<69817, 69818>>, <<69821, 69821>>, <<69826, 69826>>,
      <<69837, 69837>>, <<69888, 69890>>, <<69927, 69931>>, <<69933, 69940>>,
      <<70003, 70003>>, <<70016, 70017>>, <<70070, 70078>>, <<70089, 70092>>,
      <<70095, 70095>>, <<70191, 70193>>, <<70196, 70196>>, <<70198, 70199>>,
      <<70206, 70206>>, <<70367, 70367>>, <<70371, 70378>>, <<70400, 70401>>,
      <<70459, 70460>>, <<70464, 70464>>, <<70502, 70508>>, <<70512, 70516>>,
      <<70712, 70719>>, <<70722, 70724>>, <<70726, 70726>>, <<70750, 70750>>,
      <<70835, 70840>>, <<70842, 70842>>, <<70847, 70848>>, <<70850, 70851>>,
      <<71090, 71093>>, <<71100, 71101>>, <<71103, 71104>>, <<71132, 71133>>,
      <<71219, 71226>>, <<71229, 71229>>, <<71231, 71232>>, <<71339, 71339>>,
      <<71341, 71341>>, <<71344, 71349>>, <<71351, 71351>>, <<71453, 71455>>,
      <<71458, 71461>>, <<71463, 71467>>, <<71727, 71735>>, <<71737, 71738>>,
      <<71995, 71996>>, <<71998, 71998>>, <<72003, 72003>>, <<72148, 72151>>,
      <<72154, 72155>>, <<72160, 72160>>, <<72193, 72202>>, <<72243, 72248>>,
      <<72251, 72254>>, <<72263, 72263>>, <<72273, 72278>>, <<72281, 72283>>,
      <<72330, 72342>>, <<72344, 72345>>, <<72752, 72758>>, <<72760, 72765>>,
      <<72767, 72767>>, <<72850, 72871>>, <<72874, 72880>>, <<72882, 72883>>,
      <<72885, 72886>>, <<73009, 73014>>, <<73018, 73018>>, <<73020, 73021>>,
      <<73023, 73029>>, <<73031, 73031>>, <<73104, 73105>>, <<73109, 73109>>,
      <<73111, 73111>>, <<73459, 73460>>, <<78896, 78904>>, <<92912, 92916>>,
      <<92976, 92982>>, <<92992, 92995>>, <<94031, 94031>>, <<94095, 94111>>,
      <<94176, 94177>>, <<94179, 94180>>, <<110576, 110579>>, <<110581, 110587>>,
      <<110589, 110590>>, <<113821, 113822>>, <<113824, 113827>>, <<118528, 118573>>,
      <<118576, 118598>>, <<119143, 119145>>, <<119155, 119170>>, <<119173, 119179>>,
      <<119210, 119213>>, <<119362, 119364>>, <<121344, 121398>>, <<121403, 121452>>,
      <<121461, 121461>>, <<121476, 121476>>, <<121499, 121503>>, <<121505, 121519>>,
      <<122880, 122886>>, <<122888, 122904>>, <<122907, 122913>>, <<122915, 122916>>,
      <<122918, 122922>>, <<123184, 123197>>, <<123566, 123566>>, <<123628, 123631>>,
      <<125136, 125142>>, <<125252, 125259>>, <<127995, 127999>>, <<917505, 917505>>,
      <<917536, 917631>>, <<917760, 917999>>
    }

\* What str.lower() makes of one character other than the capital sigma: one character,
\* but for 304 (capital I with dot above), which becomes i and a combining dot above.
LowerChar(c) ==
    IF c = 304 THEN <<105, 775>>
    ELSE LET rs == {r \in LowerRanges : r[1] <= c /\ c <= r[2] /\ (c - r[1]) % r[3] = 0}
         IN  IF rs = {} THEN <<c>> ELSE <<c + (CHOOSE r \in rs : TRUE)[4]>>

\* The capital sigma (931) at position i of s becomes the final sigma (962) when, skipping
\* case-ignorable characters, a cased character precedes it and none follows it; otherwise
\* it becomes the small sigma (963).
LowerSigma(s, i) ==
    LET before == {j \in 1..(i - 1) : ~InRanges(s[j], CaseIgnorableRanges)}
        after == {j \in (i + 1)..Len(s) : ~InRanges(s[j], CaseIgnorableRanges)}
        Max(S) == CHOOSE j \in S : \A k \in S : k <= j
        Min(S) == CHOOSE j \in S : \A k \in S : j <= k
    IN  IF /\ before # {}
           /\ InRanges(s[Max(before)], CasedRanges)
           /\ (after = {} \/ ~InRanges(s[Min(after)], CasedRanges))
        THEN <<962>>
        ELSE <<963>>

RECURSIVE LowerFrom(_, _)
LowerFrom(s, i) ==
    IF i > Len(s) THEN <<>>
    ELSE (IF s[i] = 931 THEN LowerSigma(s, i) ELSE LowerChar(s[i])) \o LowerFrom(s, i + 1)

\* str.lower()
Lower(s) == LowerFrom(s, 1)

SeqToSet(s) == {s[i] : i \in 1..Len(s)}

-----------------------------------------------------------------------------
\* The installed apps (django_apps.get_app_configs()) and their models

\* "django.contrib"
DjangoContrib == <<100, 106, 97, 110, 103, 111, 46, 99, 111, 110, 116, 114, 105, 98>>

\* django.contrib.auth, blog, misc (no models) and django_shop
Registry ==
    << [name |-> DjangoContrib \o <<46, 97, 117, 116, 104>>, label |-> "auth",
        models |-> <<"User">>],
       [name |-> <<98, 108, 111, 103>>, label |-> "blog",
        models |-> <<"Post", "Comment">>],
       [name |-> <<109, 105, 115, 99>>, label |-> "misc",
        models |-> <<>>],
       [name |-> <<100, 106, 97, 110, 103, 111, 95, 115, 104, 111, 112>>, label |-> "shop",
        models |-> <<"Item">>] >>

Labels == {Registry[i].label : i \in 1..Len(Registry)}

\* Inputs of a run
IncludeChoices == {None, Some(<<>>), Some(<<"blog", "misc", "auth">>)}
ExcludeChoices == {Some(<<>>), Some(<<"blog">>)}
AppLabelChoices == {None, Some(""), Some("blog"), Some("misc"), Some("shop"), Some("auth")}
ModelNameChoices == {None, Some("Comment")}
\* What input() may return: "y", "\fYES" followed by U+1680 and "\r\n", "", "n", "yess"
Answers == { <<121>>, <<12, 89, 69, 83, 5760, 13, 10>>, <<>>, <<110>>, <<121, 101, 115, 115>> }
\* Texts the remote call may return: "", " " followed by U+1680 and "\r\n", "c", "c\n"
Texts == { <<>>, <<32, 5760, 13, 10>>, <<99>>, <<99, 10>> }

-----------------------------------------------------------------------------
\* Selector: the filter chain of handle

\* handle, lines 60-64
FilterContrib(apps) ==
    SelectSeq(apps, LAMBDA app : ~StartsWith(app.name, DjangoContrib))

\* handle, lines 67-71
FilterInclude(apps, include_apps) ==
    IF TruthyList(include_apps)
    THEN SelectSeq(apps, LAMBDA app : app.label \in SeqToSet(include_apps[1]))
    ELSE apps

\* handle, lines 74-77
FilterCli(apps, app_label_filter) ==
    IF TruthyStr(app_label_filter)
    THEN SelectSeq(apps, LAMBDA app : app.label = app_label_filter[1])
    ELSE apps

\* handle, line 55: set(cfg.get("EXCLUDE_APPS") or [])
ExcludeSet(exclude_apps) ==
    IF TruthyList(exclude_apps) THEN SeqToSet(exclude_apps[1]) ELSE {}

FilterExclude_KeepAll(apps, exclude_apps) == apps

\* handle, lines 80-82
FilterExclude(apps, exclude_apps) ==
    SelectSeq(apps, LAMBDA app : app.label \notin ExcludeSet(exclude_apps))

SelectApps(all, c, app_label_filter) ==
    FilterExclude(
        FilterCli(FilterInclude(FilterContrib(all), c.INCLUDE_APPS), app_label_filter),
        c.EXCLUDE_APPS)

-----------------------------------------------------------------------------
\* Scanner: the scan loop of handle, lines 93-110

ScanKeeps(app, include_empty) == ~(app.models = <<>> /\ ~include_empty)

ScanMap(apps, include_empty) ==
    SelectSeq(apps, LAMBDA app : ScanKeeps(app, include_empty))

RECURSIVE SumModels(_)
SumModels(m) == IF m = <<>> THEN 0 ELSE Len(Head(m).models) + SumModels(Tail(m))

-----------------------------------------------------------------------------
\* The branch after the scan: handle, lines 122-153

NextPhase_IgnoreBudget(budget_only, models, skip_confirm) ==
    IF models = 0 THEN "no_models"
    ELSE IF ~skip_confirm THEN "confirm" ELSE "generate"

NextPhase(budget_only, models, skip_confirm) ==
    IF budget_only
    THEN IF models = 0 THEN "nothing_to_estimate" ELSE "budget"
    ELSE IF models = 0 THEN "no_models"
    ELSE IF ~skip_confirm THEN "confirm" ELSE "generate"

Accepts_AnyAnswer(answer) == Strip(answer) # <<>>

\* handle, lines 154-157: input(...).strip().lower() in ("y", "yes")
Accepts(answer) == Lower(Strip(answer)) \in { <<121>>, <<121, 101, 115>> }

-----------------------------------------------------------------------------
\* Generator: _generate_for_app

\* "from rest_framework import serializers\n\n"
Header ==
    <<102, 114, 111, 109, 32, 114, 101, 115, 116, 95, 102, 114, 97, 109, 101, 119, 111,
      114, 107, 32, 105, 109, 112, 111, 114, 116, 32, 115, 101, 114, 105, 97, 108, 105,
      122, 101, 114, 115, 10, 10>>

NoFile == [exists |-> FALSE, content |-> <<>>]

EnsureHeader_AlwaysWrite(f) == [exists |-> TRUE, content |-> Header]

EnsureHeader_Never(f) == f

\* lines 174-178: write_text creates (or would overwrite) the file
EnsureHeader(f) == IF ~f.exists THEN [exists |-> TRUE, content |-> Header] ELSE f

\* llm_client.generate_code: _get_api_key raises OpenAIConfigError before any request
\* is sent when no key is configured; otherwise the request's reply decides.
GenerateCode(key, reply) ==
    IF ~key THEN [kind |-> "config_error", text |-> <<>>] ELSE reply

IsEmptyResponse_OnlyEmpty(code) == code = <<>>

\* line 218: not code.strip()
IsEmptyResponse(code) == Strip(code) = <<>>

\* lines 183-224: what happens to one model of the loop
Outcome(model_name_filter, model_name, res) ==
    IF TruthyStr(model_name_filter) /\ model_name # model_name_filter[1]
    THEN "skipped-filtered"
    ELSE IF res.kind = "config_error" THEN "failed-config"
    ELSE IF res.kind = "error" THEN "failed-other"
    ELSE IF IsEmptyResponse(res.text) THEN "skipped-empty-response"
    ELSE "written"

AfterOutcome_StopOnAnyError(outcome) ==
    IF outcome \in {"failed-config", "failed-other"} THEN "return" ELSE "continue"

\* lines 207-224: return on OpenAIConfigError, continue otherwise
AfterOutcome(outcome) == IF outcome = "failed-config" THEN "return" ELSE "continue"

Appended_AlwaysNewline(code) == code \o <<10>> \o <<10, 10>>

\* lines 228-231: f.write(code); f.write("\n") unless code ends with it; f.write("\n\n")
Appended(code) ==
    code \o (IF ~EndsWith(code, <<10>>) THEN <<10>> ELSE <<>>) \o <<10, 10>>

\* line 227: open("a") creates a missing file and never truncates
OpenAppend(f, data) == [exists |-> TRUE, content |-> f.content \o data]

Replies == {[kind |-> "error", text |-> <<>>]} \cup {[kind |-> "text", text |-> t] : t \in Texts}

CurApp == app_models_map[app_idx]

-----------------------------------------------------------------------------
\* Initial state: nothing has run; the blog artifact may be left over from earlier use
\* (absent, emptied, or holding text that does not end in a newline).

InitialBlogFiles == {NoFile, [exists |-> TRUE, content |-> <<>>],
                     [exists |-> TRUE, content |-> <<120>>]}

\* config.DEFAULT_CONFIG
DefaultConfig == [INCLUDE_APPS |-> None, EXCLUDE_APPS |-> Some(<<>>)]

\* add_arguments: the defaults of the five options
DefaultOptions == [app_label |-> None, include_empty |-> FALSE, yes |-> FALSE,
                   model_name |-> None, budget_only |-> FALSE]

Init ==
    /\ pc = "idle"
    /\ installed = Registry
    /\ run = 0
    /\ env_key = FALSE
    /\ cfg = DefaultConfig
    /\ options = DefaultOptions
    /\ app_configs = <<>>
    /\ app_models_map = <<>>
    /\ total_apps = 0
    /\ total_models = 0
    /\ report = <<>>
    /\ confirm = None
    /\ \E f \in InitialBlogFiles : files = [l \in Labels |-> IF l = "blog" THEN f ELSE NoFile]
    /\ app_idx = 1
    /\ unit_idx = 1
    /\ log = <<>>
    /\ result = "none"

\* handle, lines 46-120: read the inputs, select, scan and print the report
Scan(c, o, key) ==
    /\ pc = "idle"
    /\ run < MaxRuns
    /\ run' = run + 1
    /\ cfg' = c
    /\ options' = o
    /\ env_key' = key
    /\ confirm' = None
    /\ log' = <<>>
    /\ app_idx' = 1
    /\ unit_idx' = 1
    /\ LET sel == SelectApps(installed, c, o.app_label)
           map == IF sel = <<>> THEN <<>> ELSE ScanMap(sel, o.include_empty)
       IN  /\ app_configs' = sel
           /\ app_models_map' = map
           /\ total_apps' = Len(map)
           /\ total_models' = SumModels(map)
           /\ report' = [i \in 1..Len(map) |-> map[i].label]
           /\ IF sel = <<>>
              THEN pc' = "done" /\ result' = "no_matching_apps"
              ELSE IF Len(map) = 0
              THEN pc' = "done" /\ result' = "no_apps_with_models"
              ELSE pc' = "scanned" /\ result' = "running"
    /\ UNCHANGED <<installed, files>>

\* handle, lines 122-153
Branch ==
    /\ pc = "scanned"
    /\ LET phase == NextPhase(options.budget_only, total_models, options.yes)
       IN  IF phase \in {"confirm", "generate"}
           THEN pc' = phase /\ UNCHANGED result
           ELSE pc' = "done" /\ result' = phase
    /\ UNCHANGED <<installed, run, env_key, cfg, options, app_configs, app_models_map, total_apps,
                   total_models, report, confirm, files, app_idx, unit_idx, log>>

\* handle, line 154: input() raises EOFError when standard input is closed or empty; the
\* exception leaves handle before anything is generated
ConfirmEOF ==
    /\ pc = "confirm"
    /\ pc' = "done"
    /\ result' = "input_error"
    /\ UNCHANGED <<installed, run, env_key, cfg, options, app_configs, app_models_map,
                   total_apps, total_models, report, confirm, files, app_idx, unit_idx, log>>

\* handle, lines 154-159
Confirm(answer) ==
    /\ pc = "confirm"
    /\ confirm' = Some(answer)
    /\ IF Accepts(answer)
       THEN pc' = "generate" /\ UNCHANGED result
       ELSE pc' = "done" /\ result' = "aborted"
    /\ UNCHANGED <<installed, run, env_key, cfg, options, app_configs, app_models_map, total_apps,
                   total_models, report, files, app_idx, unit_idx, log>>

\* handle, line 162-163 and _generate_for_app, lines 168-178
BeginApp ==
    /\ pc = "generate"
    /\ app_idx <= Len(app_models_map)
    /\ files' = [files EXCEPT ![CurApp.label] = EnsureHeader(@)]
    /\ unit_idx' = 1
    /\ pc' = "unit"
    /\ UNCHANGED <<installed, run, env_key, cfg, options, app_configs, app_models_map, total_apps,
                   total_models, report, confirm, app_idx, log, result>>

\* _generate_for_app, lines 180-238: one iteration of the model loop
ProcessUnit(reply) ==
    /\ pc = "unit"
    /\ unit_idx <= Len(CurApp.models)
    /\ LET model_name == CurApp.models[unit_idx]
           res == GenerateCode(env_key, reply)
           outcome == Outcome(options.model_name, model_name, res)
           code == res.text
           called == outcome # "skipped-filtered"
       IN  /\ log' = Append(log, [app |-> CurApp.label, unit |-> model_name,
                                  outcome |-> outcome,
                                  kind |-> IF called THEN res.kind ELSE "none",
                                  text |-> IF called THEN code ELSE <<>>])
           /\ files' = IF outcome = "written"
                       THEN [files EXCEPT ![CurApp.label] = OpenAppend(@, Appended(code))]
                       ELSE files
           /\ IF AfterOutcome(outcome) = "return"
              THEN pc' = "generate" /\ app_idx' = app_idx + 1 /\ unit_idx' = 1
              ELSE pc' = "unit" /\ app_idx' = app_idx /\ unit_idx' = unit_idx + 1
    /\ UNCHANGED <<installed, run, env_key, cfg, options, app_configs, app_models_map, total_apps,
                   total_models, report, confirm, result>>

\* _generate_for_app: the model loop is exhausted, back to handle's loop
EndApp ==
    /\ pc = "unit"
    /\ unit_idx > Len(CurApp.models)
    /\ pc' = "generate"
    /\ app_idx' = app_idx + 1
    /\ unit_idx' = 1
    /\ UNCHANGED <<installed, run, env_key, cfg, options, app_configs, app_models_map, total_apps,
                   total_models, report, confirm, files, log, result>>

\* handle, line 165
Finish ==
    /\ pc = "generate"
    /\ app_idx > Len(app_models_map)
    /\ pc' = "done"
    /\ result' = "complete"
    /\ UNCHANGED <<installed, run, env_key, cfg, options, app_configs, app_models_map, total_apps,
                   total_models, report, confirm, files, app_idx, unit_idx, log>>

\* handle has returned: the process ends and only the files remain
Exit ==
    /\ pc = "done"
    /\ pc' = "idle"
    /\ env_key' = FALSE
    /\ cfg' = DefaultConfig
    /\ options' = DefaultOptions
    /\ app_configs' = <<>>
    /\ app_models_map' = <<>>
    /\ total_apps' = 0
    /\ total_models' = 0
    /\ report' = <<>>
    /\ confirm' = None
    /\ app_idx' = 1
    /\ unit_idx' = 1
    /\ log' = <<>>
    /\ result' = "none"
    /\ UNCHANGED <<installed, run, files>>

\* Inputs of the runs of the whole command
RunConfigs == {DefaultConfig,
               [INCLUDE_APPS |-> Some(<<"blog", "misc", "auth">>), EXCLUDE_APPS |-> Some(<<>>)],
               [INCLUDE_APPS |-> None, EXCLUDE_APPS |-> Some(<<"blog">>)]}
RunOptions == [app_label : {None, Some("misc"), Some("auth")}, include_empty : BOOLEAN,
               yes : BOOLEAN, model_name : ModelNameChoices, budget_only : BOOLEAN]

Next ==
    \/ \E c \in RunConfigs, o \in RunOptions, key \in BOOLEAN : Scan(c, o, key)
    \/ Branch
    \/ \E answer \in Answers : Confirm(answer)
    \/ ConfirmEOF
    \/ BeginApp
    \/ \E reply \in Replies : ProcessUnit(reply)
    \/ EndApp
    \/ Finish
    \/ Exit

Spec == Init /\ [][Next]_vars

-----------------------------------------------------------------------------
\* The Selector and the Scanner alone, over every policy and CLI filter

Configs == [INCLUDE_APPS : IncludeChoices, EXCLUDE_APPS : ExcludeChoices]
SelectOptions == [app_label : AppLabelChoices, include_empty : BOOLEAN, yes : {FALSE},
                  model_name : {None}, budget_only : {FALSE}]

\* Every selection of the registry's apps in registry order, and the reversed registry
Installations ==
    { SelectSeq(Registry, LAMBDA app : app.label \in S) : S \in SUBSET Labels }
      \cup { [i \in 1..Len(Registry) |-> Registry[Len(Registry) + 1 - i]] }

SelectInit ==
    /\ pc = "idle"
    /\ installed \in Installations
    /\ run = 0
    /\ env_key = FALSE
    /\ cfg \in Configs
    /\ options \in SelectOptions
    /\ app_configs = <<>>
    /\ app_models_map = <<>>
    /\ total_apps = 0
    /\ total_models = 0
    /\ report = <<>>
    /\ confirm = None
    /\ files = [l \in Labels |-> NoFile]
    /\ app_idx = 1
    /\ unit_idx = 1
    /\ log = <<>>
    /\ result = "none"

SelectNext == Scan(cfg, options, env_key)

SpecSelect == SelectInit /\ [][SelectNext]_vars

-----------------------------------------------------------------------------
\* Properties

Last(s) == s[Len(s)]

\* The entries of this run's log that belong to one collection
LogOf(label) == SelectSeq(log, LAMBDA e : e.app = label)

\* generate_code was called for the unit
Attempted(e) == e.outcome \in {"written", "skipped-empty-response", "failed-config", "failed-other"}

\* A step that processed one more unit
UnitStep == Len(log') = Len(log) + 1

AllWhitespace(t) == \A i \in 1..Len(t) : t[i] \in Whitespace

\* C1: once a call has failed with a configuration error, no later unit of the run is
\* attempted, neither in the same collection nor in a later one.
C1_AbortAfterConfigError ==
    \A i, j \in 1..Len(log) :
        (i < j /\ log[i].outcome = "failed-config") => ~Attempted(log[j])

\* C2: a collection with zero model units is never in the generation map, never enters
\* the generation phase, and no artifact is created for it.
C2_EmptyNeverGenerated ==
    /\ \A k \in 1..Len(app_models_map) : app_models_map[k].models # <<>>
    /\ pc = "unit" => CurApp.models # <<>>
    /\ \A k \in 1..Len(Registry) :
            Registry[k].models = <<>> => ~files[Registry[k].label].exists

\* C3: artifacts are append-only: an existing artifact stays, its old content is a prefix
\* of its new content, and the step that ensures the header leaves an existing artifact
\* untouched, so the header is written only into a file that did not exist.
C3_AppendOnly ==
    [][\A l \in Labels :
          /\ files[l].exists =>
                /\ files'[l].exists
                /\ IsPrefix(files[l].content, files'[l].content)
                /\ (pc = "generate" => files'[l] = files[l])
          /\ (~files[l].exists /\ files'[l].exists /\ pc = "generate") =>
                files'[l].content = Header]_vars

\* A second run has appended to the artifact the first run created and wrote to.
C3_Witness ==
    /\ run = 2
    /\ log # <<>>
    /\ Last(log).app = "blog"
    /\ Last(log).outcome = "written"
    /\ files["blog"].content = Header \o Appended(<<99>>) \o Appended(Last(log).text)

\* C4: select returns, in the original order, exactly the collections outside the contrib
\* namespace, in the allow-list when it is non-empty, equal to the CLI label when one is
\* given, and not excluded; never a contrib collection, never an excluded label, and
\* nothing when the CLI label is outside a non-empty allow-list.
C4_Select ==
    pc # "idle" =>
      LET allow == IF cfg.INCLUDE_APPS = None THEN {} ELSE SeqToSet(cfg.INCLUDE_APPS[1])
          excluded == IF cfg.EXCLUDE_APPS = None THEN {} ELSE SeqToSet(cfg.EXCLUDE_APPS[1])
          cliGiven == options.app_label # None /\ options.app_label # Some("")
          InContrib(app) ==
              /\ Len(app.name) >= Len(DjangoContrib)
              /\ \A i \in 1..Len(DjangoContrib) : app.name[i] = DjangoContrib[i]
          Keep(app) ==
              /\ ~InContrib(app)
              /\ (allow # {} => app.label \in allow)
              /\ (cliGiven => app.label = options.app_label[1])
              /\ app.label \notin excluded
      IN  /\ app_configs = SelectSeq(installed, Keep)
          /\ \A i \in 1..Len(app_configs) :
                /\ ~InContrib(app_configs[i])
                /\ app_configs[i].label \notin excluded
          /\ (allow # {} /\ cliGiven /\ options.app_label[1] \notin allow) => app_configs = <<>>

\* An allow-list naming a contrib app and an excluded app: only the third label is left.
C4_Witness ==
    /\ pc # "idle"
    /\ installed = Registry
    /\ cfg.INCLUDE_APPS = Some(<<"blog", "misc", "auth">>)
    /\ cfg.EXCLUDE_APPS = Some(<<"blog">>)
    /\ options.app_label = None
    /\ Len(app_configs) = 1
    /\ app_configs[1].label = "misc"

\* C5: a unit that ends failed-other, skipped-empty-response or skipped-filtered does not
\* stop the loop: the units of a collection are processed in listed order, after such an
\* outcome the loop stands at the next listed unit, a completed run has processed every
\* unit of a collection unless a configuration error ended it, and a unit is skipped
\* without a call exactly when the unit-name filter is set and does not match.
C5_ContinuePastFailures ==
    \A k \in 1..Len(app_models_map) :
        LET models == app_models_map[k].models
            es == LogOf(app_models_map[k].label)
            n == Len(es)
        IN  /\ n <= Len(models)
            /\ \A i \in 1..n :
                  /\ es[i].unit = models[i]
                  /\ ~Attempted(es[i]) <=>
                        (options.model_name # None /\ options.model_name # Some("")
                           /\ es[i].unit # options.model_name[1])
            /\ (n >= 1 /\ n < Len(models)
                  /\ es[n].outcome \in {"failed-other", "skipped-empty-response",
                                        "skipped-filtered"})
                  => (pc = "unit" /\ app_idx = k /\ unit_idx = n + 1)
            /\ result = "complete" =>
                  (n = Len(models) \/ (n >= 1 /\ es[n].outcome = "failed-config"))

\* The first unit failed with a non-configuration error, the second was written.
C5_Witness ==
    /\ Len(log) >= 2
    /\ log[1].outcome = "failed-other"
    /\ log[2].outcome = "written"
    /\ log[1].app = log[2].app

\* C6: in a run with --budget-only nothing is asked, no unit is processed, no artifact is
\* created or modified, and the run goes from the scan straight to its end.
C6_BudgetOnlyTerminal ==
    [][options'.budget_only =>
          /\ files' = files
          /\ log' = <<>>
          /\ confirm' = None
          /\ pc' \in {"scanned", "done"}]_vars

C6_Witness ==
    /\ options.budget_only
    /\ ~options.yes
    /\ pc = "done"
    /\ result = "budget"

\* C7 (as claimed): a written unit grows the artifact by the text, a newline if the text
\* does not end in one, and one further newline (a single empty line).
C7_SingleBlankLine ==
    [][(UnitStep /\ Last(log').outcome = "written") =>
          LET e == Last(log')
          IN  files'[e.app].content =
                 files[e.app].content \o e.text
                    \o (IF EndsWith(e.text, <<10>>) THEN <<>> ELSE <<10>>)
                    \o <<10>>]_vars

\* C7 (amended): a written unit grows the artifact by the text, a newline if and only if
\* the text does not end in one, and then two newline characters (two empty lines);
\* no other artifact changes.
C7_TwoBlankLines ==
    [][(UnitStep /\ Last(log').outcome = "written") =>
          LET e == Last(log')
          IN  /\ files'[e.app].content =
                    files[e.app].content \o e.text
                       \o (IF EndsWith(e.text, <<10>>) THEN <<>> ELSE <<10>>)
                       \o <<10, 10>>
              /\ \A l \in Labels \ {e.app} : files'[l] = files[l]]_vars

\* A text that already ends in a newline has been written after existing content.
C7_Witness ==
    /\ log # <<>>
    /\ Last(log).outcome = "written"
    /\ Last(log).text = <<99, 10>>
    /\ files[Last(log).app].content = <<120, 99, 10, 10, 10>>

\* The answers of the operator that read y or yes
AffirmativeAnswers == { <<121>>, <<12, 89, 69, 83, 5760, 13, 10>> }

\* C8: the generation phase (and so every remote call and artifact write) comes after the
\* complete scan report and, without --yes, after the one confirmation was answered y or
\* yes; any other answer ends the run with nothing attempted and no artifact changed.
C8_ScanConfirmGenerate ==
    /\ []( /\ (pc \in {"generate", "unit"} \/ log # <<>>) =>
                /\ report = [i \in 1..Len(app_models_map) |-> app_models_map[i].label]
                /\ total_models > 0
                /\ IF options.yes THEN confirm = None
                   ELSE confirm # None /\ confirm[1] \in AffirmativeAnswers
           /\ (confirm # None /\ confirm[1] \notin AffirmativeAnswers) =>
                (pc = "done" /\ result = "aborted" /\ log = <<>>) )
    /\ [][(files' # files \/ log' \notin {log, <<>>}) => pc \in {"generate", "unit"}]_vars

C8_Witness ==
    /\ confirm = Some(<<12, 89, 69, 83, 5760, 13, 10>>)
    /\ log # <<>>
    /\ Last(log).outcome = "written"

\* C9: a unit that is filtered out, fails with a configuration or other error, or returns
\* empty or whitespace-only text leaves every artifact unchanged, and no unit is
\* processed twice in one run.
C9_OnlyWrittenChangesFiles ==
    /\ [][(UnitStep /\ (Last(log').kind # "text" \/ AllWhitespace(Last(log').text)))
             => files' = files]_vars
    /\ [](\A i, j \in 1..Len(log) :
             (log[i].app = log[j].app /\ log[i].unit = log[j].unit) => i = j)

\* A whitespace-only reply was skipped after something had been written.
C9_Witness ==
    /\ Len(log) >= 2
    /\ log[1].outcome = "written"
    /\ log[2].kind = "text"
    /\ log[2].text = <<32, 5760, 13, 10>>
    /\ log[2].outcome = "skipped-empty-response"

\* C10: the artifact of a collection handed to the generation phase exists before any of
\* its units is examined (seeded with the header if it was absent), so it exists after the
\* run even when no unit of the collection was written.
C10_HeaderBeforeUnits ==
    /\ []( /\ pc = "unit" => files[CurApp.label].exists
           /\ \A i \in 1..Len(log) : files[log[i].app].exists
           /\ result = "complete" =>
                \A k \in 1..Len(app_models_map) : files[app_models_map[k].label].exists )
    /\ [][(pc = "generate" /\ pc' = "unit") =>
             LET l == app_models_map[app_idx].label
             IN  /\ log' = log
                 /\ files'[l].exists
                 /\ (~files[l].exists => files'[l].content = Header)]_vars

\* A completed run wrote nothing, yet left the header in the artifacts of a collection
\* without units and of a collection whose only unit was filtered out.
C10_Witness ==
    /\ result = "complete"
    /\ \A i \in 1..Len(log) : log[i].outcome # "written"
    /\ files["misc"] = [exists |-> TRUE, content |-> Header]
    /\ files["shop"] = [exists |-> TRUE, content |-> Header]
    /\ \E i \in 1..Len(log) : log[i].app = "shop" /\ log[i].outcome = "skipped-filtered"

====
